---- MODULE Spec2Model ----
(***************************************************************************)
(* LDAP authentication backend of airflow/contrib/auth/backends/ldap_auth. *)
(*                                                                         *)
(* The three module-level functions get_ldap_connection,                   *)
(* group_contains_user and groups_user are wrapped by cache.memoize(86400):*)
(* a call whose arguments have a stored result younger than the timeout    *)
(* returns the stored result, any other call runs the body and stores what *)
(* it returns; a call that raises stores nothing.  The store is the        *)
(* filesystem store of line 46: a value is pickled into a file when it is  *)
(* stored and unpickled, as a copy, when it is returned.  A Connection     *)
(* returned on a hit is therefore a copy as it was when stored, and what   *)
(* the caller does to the object in its hands never reaches the store.     *)
(* Whether a Connection can be pickled at all is the client library's      *)
(* matter: when it cannot, cache.set raises, memoize goes on without       *)
(* storing, and every call binds.  Both outcomes are explored.             *)
(*                                                                         *)
(* The directory server, the clock, the users table and the configuration  *)
(* file are the environment.  Requests are served by the threads of the    *)
(* web server, several at once.  A request (LdapUser.try_login,            *)
(* LdapUser.__init__, load_user, login) advances by steps.  A step holds   *)
(* at most one call the request waits on: a lookup in a store, a bind,     *)
(* search or unbind on the network, a write to a store, a query or commit  *)
(* on the database; the statements around it touch the request's own       *)
(* locals and the configuration only.  Other requests, the clock and the   *)
(* directory administrator act between the steps: memoize holds no lock    *)
(* between looking a result up, running the body and storing what it       *)
(* returned, and the handlers hold none either.  A thread that has served  *)
(* its request is free for the next.                                       *)
(***************************************************************************)
EXTENDS Integers, Sequences, FiniteSets, TLC

VARIABLES
    cfg,          \* the [ldap] section: a function from the keys present to their values
    now,          \* the clock, in seconds
    connPickles,  \* can the filesystem store pickle a Connection object?
    dirSvcOk,     \* directory: does it accept (bind_user, bind_password)?
    dirPw,        \* directory: the password of each user entry
    dirGroups,    \* directory: group filter -> the entries found, each its user-name attribute or NoAttr
    dirMemberOf,  \* directory: user -> the value list of the memberOf attribute, or NoAttr
    connCache,    \* memoize store of get_ldap_connection: (dn, password) -> [stamp, bound]
    gcuCache,     \* memoize store of group_contains_user: (filter, username) -> [stamp, val]
    guCache,      \* memoize store of groups_user: username -> [stamp, val]
    glcReturned,  \* history: (dn, password) -> when a get_ldap_connection call that bound last returned
    gcuSearched,  \* history: (filter, username) -> when a search of the directory for it last returned
    users,        \* the users table: the usernames in the order their records were added; a record's id is its position
    thr,          \* the request each thread is serving: the call, its position, arguments, locals and directory calls
    changes       \* number of directory changes made so far

vars == <<cfg, now, connPickles, dirSvcOk, dirPw, dirGroups, dirMemberOf,
          connCache, gcuCache, guCache, glcReturned, gcuSearched, users, thr, changes>>

(***************************************************************************)
(* Bounds and program constants                                            *)
(***************************************************************************)
TTL == 86400

TickStep == 50000

MaxTicks == 2

MaxChanges == 1

(***************************************************************************)
(* Configuration                                                           *)
(***************************************************************************)
\* the keys read by conf.get outside any handler: absent, the read raises
\* AirflowConfigException
RequiredKeys == {"uri", "bind_user", "bind_password", "basedn",
                 "user_filter", "user_name_attr", "search_scope"}

\* the keys read inside try/except AirflowConfigException (or except Exception)
OptionalKeys == {"superuser_filter", "data_profiler_filter", "cacert",
                 "group_member_attr", "ignore_malformed_schema"}

Keys == RequiredKeys \cup OptionalKeys

SU_FILTER == "cn=airflow-admins"

DP_FILTER == "cn=airflow-profilers"

FullConfig(scope) ==
    [k \in Keys |->
        CASE k = "uri" -> "ldaps://ldap.example.com"
          [] k = "bind_user" -> "cn=svc,dc=example,dc=com"
          [] k = "bind_password" -> "svc-secret"
          [] k = "basedn" -> "dc=example,dc=com"
          [] k = "user_filter" -> "objectClass=person"
          [] k = "user_name_attr" -> "uid"
          [] k = "superuser_filter" -> SU_FILTER
          [] k = "data_profiler_filter" -> DP_FILTER
          [] k = "cacert" -> "/etc/ca.pem"
          [] k = "search_scope" -> scope
          [] k = "group_member_attr" -> "memberOf"
          [] k = "ignore_malformed_schema" -> "False"]

Without(c, S) == [k \in (DOMAIN c) \ S |-> c[k]]

With(c, key, v) == [k \in DOMAIN c |-> IF k = key THEN v ELSE c[k]]

\* The configurations explored: everything set (either scope), any one key
\* absent, both privilege filters absent, a privilege filter present but empty.
Configs ==
    {FullConfig("LEVEL"), FullConfig("SUBTREE")}
    \cup {Without(FullConfig("LEVEL"), {k}) : k \in Keys}
    \cup {Without(FullConfig("LEVEL"), {"superuser_filter", "data_profiler_filter"})}
    \cup {With(FullConfig("LEVEL"), "superuser_filter", "")}

\* conf.has_option("ldap", k)
has_option(k) == k \in DOMAIN cfg

(***************************************************************************)
(* Exceptions                                                              *)
(***************************************************************************)
NoExc == [type |-> "none", msg |-> ""]

Raise(t, m) == [type |-> t, msg |-> m]

\* conf.get("ldap", k) on an absent key
ConfigMissing(k) == Raise("AirflowConfigException", k)

MSG_BIND == "Cannot bind to ldap server"

MSG_INVALID == "Invalid username or password"

MSG_PARSE == "Could not parse LDAP structure. Try setting search_scope in airflow.cfg, or check logs"

MSG_NONE == "'NoneType' object has no attribute 'username'"

\* the one element of a one-element set
The(S) == CHOOSE x \in S : TRUE

(***************************************************************************)
(* The directory server                                                    *)
(***************************************************************************)
SvcDN == "cn=svc,dc=example,dc=com"

SvcPw == "svc-secret"

Passwords == {"pw1", "pw2"}

\* Names submitted to try_login: bob sits directly under the base DN, amy one
\* level deeper, eve has no entry, a search for ref is answered by a
\* referral, a response item that carries no 'dn', and kay has an entry whose
\* bind the client library fails to carry out, raising KeyError.
LoginNames == {"bob", "amy", "eve", "ref", "kay"}

DirUsers == {"bob", "amy"}

MalformedUsers == {"kay"}

\* the user name under which the user search finds the service account's own
\* entry, the one whose DN is bind_user
SvcName == "svc"

\* the names that have an entry
EntryNames == DirUsers \cup MalformedUsers \cup {SvcName}

DN(u) == CASE u = "bob" -> "uid=bob,dc=example,dc=com"
           [] u = "amy" -> "uid=amy,ou=people,dc=example,dc=com"
           [] u = SvcName -> SvcDN
           [] OTHER -> "uid=kay,dc=example,dc=com"

Depth(u) == IF u = "amy" THEN 2 ELSE 1

\* conn.response of a search for the user filter (&(user_filter)(user_name_attr=username))
SearchUser(username, scope) ==
    IF username \in EntryNames /\ (scope = "SUBTREE" \/ Depth(username) = 1)
    THEN <<[type |-> "searchResEntry", dn |-> DN(username)]>>
    ELSE IF username = "ref" THEN <<[type |-> "searchResRef"]>>
    ELSE <<>>

\* conn.bind(): the directory's answer to a bind request
DirAccepts(dn, password) ==
    \/ dn = SvcDN /\ password = SvcPw /\ dirSvcOk
    \/ \E u \in DirUsers : dn = DN(u) /\ password = dirPw[u]

\* Server(...), Connection(...) or conn.bind() raises KeyError: the failure the
\* handler around the user bind in try_login provides for
BindRaisesKeyError(dn) == \E u \in MalformedUsers : dn = DN(u)

(***************************************************************************)
(* cache.memoize(86400)                                                    *)
(***************************************************************************)
NoEntry == [stamp |-> -1]

\* a stored result is returned while it is younger than the timeout
Fresh(e) == e.stamp >= 0 /\ now - e.stamp < TTL

ConnKeys == {<<SvcDN, SvcPw>>}
            \cup {<<DN(u), p>> : u \in DirUsers \cup MalformedUsers, p \in Passwords}

\* The stores and the directory calls made so far, threaded through a handler.
Mem(c, g, u, l) == [conn |-> c, gcu |-> g, gu |-> u, log |-> l]

Logged(m, e) == [m EXCEPT !.log = Append(@, e)]

(***************************************************************************)
(* get_ldap_connection                                                     *)
(***************************************************************************)
\* A Connection object in the hands of a caller: the pair it was made for and
\* whether it is bound.
Connection(dn, password, bound) == [dn |-> dn, password |-> password, bound |-> bound]

\* no connection: the call raised
NoConn == Connection("", "", FALSE)

\* Mutant of get_ldap_connection_body: a bind the directory refuses does not
\* raise, the connection is returned as it is.
get_ldap_connection_body_returns(m, dn, password) ==
    IF ~has_option("ignore_malformed_schema")
    THEN [exc |-> Raise("UnboundLocalError", "ignore_malformed_schema"),
          m |-> m, conn |-> NoConn]
    ELSE IF ~has_option("cacert")
    THEN [exc |-> Raise("UnboundLocalError", "cacert"), m |-> m, conn |-> NoConn]
    ELSE IF ~has_option("search_scope")
    THEN [exc |-> ConfigMissing("search_scope"), m |-> m, conn |-> NoConn]
    ELSE IF ~has_option("uri")
    THEN [exc |-> ConfigMissing("uri"), m |-> m, conn |-> NoConn]
    ELSE IF BindRaisesKeyError(dn)
    THEN [exc |-> Raise("KeyError", "dn"),
          m |-> Logged(m, <<"bind", dn, password>>), conn |-> NoConn]
    ELSE [exc |-> NoExc, m |-> Logged(m, <<"bind", dn, password>>),
          conn |-> Connection(dn, password, DirAccepts(dn, password))]

\* The function body, run on a cache miss: the connection it returns is bound.
get_ldap_connection_body(m, dn, password) ==
    IF ~has_option("ignore_malformed_schema")
    THEN [exc |-> Raise("UnboundLocalError", "ignore_malformed_schema"),
          m |-> m, conn |-> NoConn]
    ELSE IF ~has_option("cacert")
    THEN [exc |-> Raise("UnboundLocalError", "cacert"), m |-> m, conn |-> NoConn]
    ELSE IF ~has_option("search_scope")
    THEN [exc |-> ConfigMissing("search_scope"), m |-> m, conn |-> NoConn]
    ELSE IF ~has_option("uri")
    THEN [exc |-> ConfigMissing("uri"), m |-> m, conn |-> NoConn]
    ELSE IF BindRaisesKeyError(dn)
    THEN [exc |-> Raise("KeyError", "dn"),
          m |-> Logged(m, <<"bind", dn, password>>), conn |-> NoConn]
    ELSE IF ~DirAccepts(dn, password)
    THEN [exc |-> Raise("AuthenticationError", MSG_BIND),
          m |-> Logged(m, <<"bind", dn, password>>), conn |-> NoConn]
    ELSE [exc |-> NoExc, m |-> Logged(m, <<"bind", dn, password>>),
          conn |-> Connection(dn, password, TRUE)]

\* memoize looks the arguments up: a result stored less than TTL seconds ago
get_ldap_connection_hit(m, dn, password) == Fresh(m.conn[<<dn, password>>])

\* the value returned on a hit: the stored connection unpickled, a copy as it
\* was when stored
get_ldap_connection_stored(m, dn, password) ==
    Connection(dn, password, m.conn[<<dn, password>>].bound)

\* cache.set of the connection the body returned: pickled as it is now; when a
\* Connection cannot be pickled set raises, which memoize logs and passes over
get_ldap_connection_set(m, conn) ==
    IF connPickles
    THEN [m EXCEPT !.conn[<<conn.dn, conn.password>>] =
                       [stamp |-> now, bound |-> conn.bound]]
    ELSE m

\* memoize after the body has run on a miss and ended as b: what it returned
\* is stored, what it raised passes through
get_ldap_connection_miss(b, dn, password) ==
    IF b.exc # NoExc THEN b
    ELSE [b EXCEPT !.m = get_ldap_connection_set(b.m, b.conn)]

\* The memoized function.
get_ldap_connection(m, dn, password) ==
    IF get_ldap_connection_hit(m, dn, password)
    THEN [exc |-> NoExc,
          m |-> Logged(m, <<"call", "get_ldap_connection", dn, password>>),
          conn |-> get_ldap_connection_stored(m, dn, password)]
    ELSE The({get_ldap_connection_miss(b, dn, password) :
                 b \in {get_ldap_connection_body(
                            Logged(m, <<"call", "get_ldap_connection", dn, password>>),
                            dn, password)}})

\* conn.search is possible on a bound connection only
CanSearch(conn) == conn.bound

\* Mutant of Unbind: the stored connection is unbound along with the one in
\* the caller's hands.
Unbind_stored(m, conn) ==
    [m |-> [Logged(m, <<"unbind", conn.dn>>)
                EXCEPT !.conn[<<conn.dn, conn.password>>] =
                           IF @.stamp >= 0 THEN [@ EXCEPT !.bound = FALSE] ELSE @],
     conn |-> [conn EXCEPT !.bound = FALSE]]

\* conn.unbind(): the object in the caller's hands is unbound; the stores are
\* files and keep what was written to them
Unbind(m, conn) ==
    [m |-> Logged(m, <<"unbind", conn.dn>>), conn |-> [conn EXCEPT !.bound = FALSE]]

(***************************************************************************)
(* LdapUser.try_login                                                      *)
(***************************************************************************)
\* search_scope = LEVEL unless the option is present and equals "SUBTREE"
LoginScope ==
    IF has_option("search_scope")
    THEN IF cfg["search_scope"] = "SUBTREE" THEN "SUBTREE" ELSE "LEVEL"
    ELSE "LEVEL"

\* Lines 221-232, after get_ldap_connection ended as r: the search filter is
\* formatted from user_filter and user_name_attr.
try_login_filter(r) ==
    IF r.exc # NoExc THEN r
    ELSE IF ~has_option("user_filter")
    THEN [r EXCEPT !.exc = ConfigMissing("user_filter")]
    ELSE IF ~has_option("user_name_attr")
    THEN [r EXCEPT !.exc = ConfigMissing("user_name_attr")]
    ELSE r

\* conf.get of bind_user and bind_password, the arguments of line 218
ServiceArgs ==
    IF ~has_option("bind_user") THEN ConfigMissing("bind_user")
    ELSE IF ~has_option("bind_password") THEN ConfigMissing("bind_password")
    ELSE NoExc

\* Lines 218-232: the service connection, the search filter and the scope.
try_login_connect(m) ==
    IF ServiceArgs # NoExc THEN [exc |-> ServiceArgs, m |-> m, conn |-> NoConn]
    ELSE The({try_login_filter(r) :
                 r \in {get_ldap_connection(m, cfg["bind_user"], cfg["bind_password"])}})

\* Mutant of try_login_search: a search that finds nothing is reported as a
\* directory structure that cannot be parsed.
try_login_search_parse(m, conn, username) ==
    IF ~has_option("basedn")
    THEN [exc |-> ConfigMissing("basedn"), m |-> m, response |-> <<>>]
    ELSE IF ~CanSearch(conn)
    THEN [exc |-> Raise("LDAPSocketOpenError", "socket is not open"),
          m |-> m, response |-> <<>>]
    ELSE IF Len(SearchUser(username, LoginScope)) = 0
    THEN [exc |-> Raise("LdapException", MSG_PARSE),
          m |-> Logged(m, <<"search_user", username>>), response |-> <<>>]
    ELSE [exc |-> NoExc, m |-> Logged(m, <<"search_user", username>>),
          response |-> SearchUser(username, LoginScope)]

\* Lines 236-245: the search for the user's entry on the service connection.
try_login_search(m, conn, username) ==
    IF ~has_option("basedn")
    THEN [exc |-> ConfigMissing("basedn"), m |-> m, response |-> <<>>]
    ELSE IF ~CanSearch(conn)
    THEN [exc |-> Raise("LDAPSocketOpenError", "socket is not open"),
          m |-> m, response |-> <<>>]
    ELSE IF Len(SearchUser(username, LoginScope)) = 0
    THEN [exc |-> Raise("AuthenticationError", MSG_INVALID),
          m |-> Logged(m, <<"search_user", username>>), response |-> <<>>]
    ELSE [exc |-> NoExc, m |-> Logged(m, <<"search_user", username>>),
          response |-> SearchUser(username, LoginScope)]

\* Line 247: conn.unbind() on the service connection.
try_login_unbind(m, conn) == Unbind(m, conn)

\* except KeyError around the user bind: re-raised as LdapException
UserBindExcept(r) ==
    IF r.exc.type = "KeyError" THEN [r EXCEPT !.exc = Raise("LdapException", MSG_PARSE)]
    ELSE r

\* Lines 249-269: the bind as the entry found, with the password supplied.
try_login_userbind(m, entry, password) ==
    IF "dn" \notin DOMAIN entry
    THEN [exc |-> Raise("AuthenticationError", MSG_INVALID), m |-> m, conn |-> NoConn]
    ELSE The({UserBindExcept(r) : r \in {get_ldap_connection(m, entry.dn, password)}})

\* try_login after its search ended as s: the unbind and the user bind
try_login_found(s, conn, password) ==
    IF s.exc # NoExc THEN [exc |-> s.exc, m |-> s.m]
    ELSE The({[exc |-> u.exc, m |-> u.m] :
                 u \in {try_login_userbind(try_login_unbind(s.m, conn).m,
                                           s.response[1], password)}})

\* try_login after its connection step ended as c: the search and what follows
try_login_connected(c, username, password) ==
    IF c.exc # NoExc THEN [exc |-> c.exc, m |-> c.m]
    ELSE The({try_login_found(s, c.conn, password) :
                 s \in {try_login_search(c.m, c.conn, username)}})

try_login(m, username, password) ==
    The({try_login_connected(c, username, password) : c \in {try_login_connect(m)}})

(***************************************************************************)
(* Strings: a memberOf value is a sequence of characters                   *)
(***************************************************************************)
UpperCase == <<"A","B","C","D","E","F","G","H","I","J","K","L","M",
               "N","O","P","Q","R","S","T","U","V","W","X","Y","Z">>

LowerCase == <<"a","b","c","d","e","f","g","h","i","j","k","l","m",
               "n","o","p","q","r","s","t","u","v","w","x","y","z">>

\* str.lower() of one character, by the alphabet
LowerChar(c) ==
    IF \E i \in 1..Len(UpperCase) : UpperCase[i] = c
    THEN LowerCase[CHOOSE i \in 1..Len(UpperCase) : UpperCase[i] = c]
    ELSE c

\* The characters of the user names and attribute values that occur, which the
\* model otherwise holds as one string each.
Spelling == [
    bob |-> <<"b", "o", "b">>,
    Bob |-> <<"B", "o", "b">>,
    BOB |-> <<"B", "O", "B">>,
    bOb |-> <<"b", "O", "b">>,
    amy |-> <<"a", "m", "y">>,
    Amy |-> <<"A", "m", "y">>,
    AMY |-> <<"A", "M", "Y">>,
    eve |-> <<"e", "v", "e">>,
    Eve |-> <<"E", "v", "e">>,
    EVE |-> <<"E", "V", "E">>,
    ref |-> <<"r", "e", "f">>,
    Ref |-> <<"R", "e", "f">>,
    REF |-> <<"R", "E", "F">>,
    kay |-> <<"k", "a", "y">>,
    Kay |-> <<"K", "a", "y">>,
    KAY |-> <<"K", "A", "Y">>,
    svc |-> <<"s", "v", "c">>,
    Svc |-> <<"S", "v", "c">>,
    SVC |-> <<"S", "V", "C">>,
    alice |-> <<"a", "l", "i", "c", "e">>,
    Alice |-> <<"A", "l", "i", "c", "e">>,
    ALICE |-> <<"A", "L", "I", "C", "E">>]

\* str.lower(): of a name, character by character over its spelling; of a
\* single character, by the alphabet
Lower(c) ==
    IF c \in DOMAIN Spelling
    THEN LET lowered == [i \in 1..Len(Spelling[c]) |-> LowerChar(Spelling[c][i])] IN
         IF \E n \in DOMAIN Spelling : Spelling[n] = lowered
         THEN CHOOSE n \in DOMAIN Spelling : Spelling[n] = lowered
         ELSE c
    ELSE LowerChar(c)

\* "cn=Admins,ou=Groups,dc=example,dc=com"
V_ADMINS == <<"c","n","=","A","d","m","i","n","s",",","o","u","=","G","r","o","u","p","s",",",
              "d","c","=","e","x","a","m","p","l","e",",","d","c","=","c","o","m">>

\* "CN=dev,ou=g"
V_DEV == <<"C","N","=","d","e","v",",","o","u","=","g">>

\* "ou=staff,dc=x": no cn= component
V_STAFF == <<"o","u","=","s","t","a","f","f",",","d","c","=","x">>

\* "ou=x,cn=ops": the cn= component is not the first one
V_OPS == <<"o","u","=","x",",","c","n","=","o","p","s">>

\* The memberOf attribute of a user entry: absent, or present with a value list.
NoAttr == [present |-> FALSE, values |-> <<>>]

Attr(values) == [present |-> TRUE, values |-> values]

MemberOfAttrs == {NoAttr, Attr(<<>>), Attr(<<V_ADMINS>>), Attr(<<V_ADMINS, V_DEV>>),
                  Attr(<<V_STAFF, V_ADMINS>>), Attr(<<V_DEV, V_STAFF>>), Attr(<<V_OPS>>)}

\* a match object is <<group 1>>, None is <<>>
NoMatch == <<>>

\* regex "cn=" (re.IGNORECASE) matches at position i of s
CnAt(s, i) ==
    /\ i + 2 <= Len(s)
    /\ Lower(s[i]) = "c"
    /\ Lower(s[i + 1]) = "n"
    /\ s[i + 2] = "="

\* ([^,]*): the longest run of characters other than ',' from position i on
RECURSIVE UpToComma(_, _)
UpToComma(s, i) ==
    IF i > Len(s) \/ s[i] = "," THEN <<>>
    ELSE <<s[i]>> \o UpToComma(s, i + 1)

\* regex.search(s) for "cn=([^,]*).*": group 1 of the leftmost match, or None
RegexSearch(s) ==
    IF \E i \in 1..Len(s) : CnAt(s, i)
    THEN LET i == CHOOSE j \in 1..Len(s) :
                      CnAt(s, j) /\ \A k \in 1..(j - 1) : ~CnAt(s, k)
         IN <<UpToComma(s, i + 3)>>
    ELSE NoMatch

\* [regex.search(i).group(1) for i in user_groups]: .group on None raises
\* AttributeError, which "except IndexError" does not catch
ParseGroups(user_groups) ==
    IF \E i \in 1..Len(user_groups) : RegexSearch(user_groups[i]) = NoMatch
    THEN [exc |-> Raise("AttributeError", "'NoneType' object has no attribute 'group'"),
          val |-> <<>>]
    ELSE [exc |-> NoExc,
          val |-> [i \in 1..Len(user_groups) |-> RegexSearch(user_groups[i])[1]]]

(***************************************************************************)
(* group_contains_user                                                     *)
(***************************************************************************)
\* conn.entries of the search for (&(group_filter)): for each entry found, in
\* the order the server sent them, its attribute user_name_attr
SearchGroup(group_filter) ==
    IF group_filter \in DOMAIN dirGroups THEN dirGroups[group_filter] ELSE <<>>

\* username.lower() in map(lambda val: val.lower(), attribute.values)
HasName(attribute, username) ==
    \E j \in 1..Len(attribute.values) : Lower(attribute.values[j]) = Lower(username)

\* The for loop over conn.entries stops at the first entry that either lacks
\* the attribute, where getattr raises, or holds the username, where the
\* function returns True.
StopsAt(entries, username) ==
    {i \in 1..Len(entries) : ~entries[i].present \/ HasName(entries[i], username)}

FirstOf(S) == CHOOSE i \in S : \A j \in S : i <= j

\* Mutant of group_contains_user_body: any entry found counts as membership,
\* the username is not looked for among the attribute values.
group_contains_user_body_anyentry(m, conn, group_filter, username) ==
    IF ~CanSearch(conn)
    THEN [exc |-> Raise("LDAPSocketOpenError", "socket is not open"), m |-> m, val |-> FALSE]
    ELSE [exc |-> NoExc, val |-> Len(SearchGroup(group_filter)) # 0,
          m |-> Logged(Logged(m, <<"search_group", group_filter, username>>),
                       <<"returned", group_filter, username,
                         Len(SearchGroup(group_filter)) # 0>>)]

\* The function body, run on a cache miss.
group_contains_user_body(m, conn, group_filter, username) ==
    IF ~CanSearch(conn)
    THEN [exc |-> Raise("LDAPSocketOpenError", "socket is not open"), m |-> m, val |-> FALSE]
    ELSE LET entries == SearchGroup(group_filter)
             stops == StopsAt(entries, username)
             m1 == Logged(m, <<"search_group", group_filter, username>>)
         IN
         IF stops # {} /\ ~entries[FirstOf(stops)].present
         THEN [exc |-> Raise("AttributeError", "attribute not found"),
               m |-> m1, val |-> FALSE]
         ELSE [exc |-> NoExc, val |-> stops # {},
               m |-> Logged(m1, <<"returned", group_filter, username, stops # {}>>)]

\* Mutant of group_contains_user_hit: the stored result is never consulted.
group_contains_user_hit_never(m, group_filter, username) == FALSE

\* memoize looks the arguments up: a result stored less than TTL seconds ago
group_contains_user_hit(m, group_filter, username) ==
    Fresh(m.gcu[<<group_filter, username>>])

\* cache.set of the value the body returned
group_contains_user_set(m, group_filter, username, val) ==
    [m EXCEPT !.gcu[<<group_filter, username>>] = [stamp |-> now, val |-> val]]


(***************************************************************************)
(* groups_user                                                             *)
(***************************************************************************)
\* conf.get("ldap", "group_member_attr"), "memberOf" on any exception
MemberofAttr ==
    IF has_option("group_member_attr") THEN cfg["group_member_attr"] ELSE "memberOf"

\* conn.response[0]["attributes"] of the user's entry
Attributes(username) ==
    IF dirMemberOf[username].present
    THEN [a \in {"memberOf"} |-> dirMemberOf[username].values]
    ELSE <<>>

\* The function body, run on a cache miss.
groups_user_body(m, conn, username) ==
    IF ~CanSearch(conn)
    THEN [exc |-> Raise("LDAPSocketOpenError", "socket is not open"), m |-> m, val |-> <<>>]
    ELSE LET m1 == Logged(m, <<"search_memberof", MemberofAttr, username>>) IN
         IF Len(SearchUser(username, "SUBTREE")) = 0
         THEN [exc |-> Raise("AuthenticationError", MSG_INVALID), m |-> m1, val |-> <<>>]
         ELSE IF MemberofAttr \notin DOMAIN Attributes(username)
         THEN [exc |-> NoExc, val |-> <<>>, m |-> m1]
         ELSE [exc |-> ParseGroups(Attributes(username)[MemberofAttr]).exc,
               val |-> ParseGroups(Attributes(username)[MemberofAttr]).val,
               m |-> m1]

\* memoize looks the arguments up: a result stored less than TTL seconds ago
groups_user_hit(m, username) == Fresh(m.gu[username])

\* cache.set of the value the body returned
groups_user_set(m, username, val) ==
    [m EXCEPT !.gu[username] = [stamp |-> now, val |-> val]]


(***************************************************************************)
(* The request a thread is serving                                         *)
(***************************************************************************)
Unset == "unset"

\* user is None: session.query(...).first() found no record
NoUser == "<None>"

FLASH_ALREADY == "You are already logged in"

FLASH_INCORRECT == "Incorrect login details"

NoFlash == ""

\* try_login was not reached
NotCalled == [type |-> "not called", msg |-> ""]

\* try_login was called and has yet to return or raise
InCall == [type |-> "in call", msg |-> ""]

\* the request threads of the web server that may be serving requests at once
Threads == {"t1", "t2"}

\* A thread that is serving no request.  Of a thread that is: the call it
\* serves (op), where in it (stage, pc), its arguments and locals, the
\* directory calls it has made (log) and how it ended (exc; for login also the
\* page returned, the message flashed, how its try_login ended, whether its
\* query found the record, whether its commit added one, and whether
\* login_user ran).  alone and crossed are history: how a try_login would have
\* ended served alone, and whether another thread unbound its service
\* connection while this one held one it had yet to search on.
NotRunning ==
    [pc |-> "idle", op |-> "none", stage |-> "none", user |-> "", password |-> "",
     conn |-> NoConn, response |-> <<>>, exc |-> NoExc, flag |-> FALSE, groups |-> <<>>,
     superuser |-> Unset, data_profiler |-> Unset, ldap_groups |-> <<>>, log |-> <<>>,
     page |-> "none", flash |-> NoFlash, tried |-> NotCalled, found |-> FALSE,
     added |-> FALSE, logged_in |-> FALSE, alone |-> NoExc, crossed |-> FALSE]

\* the stores as they are now, read by a step of a thread
Shared == Mem(connCache, gcuCache, guCache, <<>>)

\* the stores as they are now and the directory calls thread t has made
Own(t) == Mem(connCache, gcuCache, guCache, thr[t].log)

\* except (LdapException, AuthenticationError) as e: flash and render the
\* form again; any other exception leaves the handler
login_except(rec, e) ==
    IF e.type = "LdapException"
    THEN [rec EXCEPT !.pc = "done", !.tried = IF @ = InCall THEN e ELSE @,
                     !.flash = e.msg, !.page = "login_form"]
    ELSE IF e.type = "AuthenticationError"
    THEN [rec EXCEPT !.pc = "done", !.tried = IF @ = InCall THEN e ELSE @,
                     !.flash = FLASH_INCORRECT, !.page = "login_form"]
    ELSE [rec EXCEPT !.pc = "done", !.tried = IF @ = InCall THEN e ELSE @, !.exc = e]

\* the call raises e: out of try_login, the constructor or load_user it
\* escapes, and so it does out of login while current_user is being loaded
\* (line 312, before the try of line 330); inside the try it reaches the
\* except clause of line 349
Raised(rec, e) ==
    IF rec.op = "login" /\ rec.tried # NotCalled THEN login_except(rec, e)
    ELSE [rec EXCEPT !.pc = "done", !.exc = e]

\* try_login returns: to its caller, or to line 334 of login
try_login_returned(rec) ==
    IF rec.op = "login" THEN [rec EXCEPT !.pc = "db_query", !.tried = NoExc]
    ELSE [rec EXCEPT !.pc = "done"]

\* LdapUser.__init__ returns: to its caller; in login to login_user at line
\* 345, or, when it was called by the user loader for current_user at line
\* 312, to lines 312-314: is_authenticated is True of every LdapUser
Constructed(rec) ==
    IF rec.op = "login" /\ rec.tried = NotCalled
    THEN [rec EXCEPT !.stage = "constructed", !.pc = "done",
                     !.flash = FLASH_ALREADY, !.page = "redirect"]
    ELSE [rec EXCEPT !.stage = "constructed",
                     !.pc = IF rec.op = "login" THEN "login_user" ELSE "done"]

(***************************************************************************)
(* LdapUser.try_login                                                      *)
(***************************************************************************)
\* the thread has the service connection and goes on to lines 221-232
Connected(rec, conn) ==
    The({IF f.exc # NoExc THEN Raised(rec, f.exc)
         ELSE [rec EXCEPT !.conn = conn, !.pc = "connected"] :
            f \in {try_login_filter([exc |-> NoExc, m |-> Shared, conn |-> conn])}})

\* Lines 218-219 up to the lookup in the connection store, and on a hit the
\* lines up to the search.
try_login_begin(rec) ==
    IF ServiceArgs # NoExc THEN Raised(rec, ServiceArgs)
    ELSE The({IF get_ldap_connection_hit(Shared, cfg["bind_user"], cfg["bind_password"])
              THEN Connected(r, get_ldap_connection_stored(
                                    Shared, cfg["bind_user"], cfg["bind_password"]))
              ELSE [r EXCEPT !.pc = "svc_bind"] :
                 r \in {[rec EXCEPT !.log =
                             Append(@, <<"call", "get_ldap_connection",
                                         cfg["bind_user"], cfg["bind_password"]>>)]}})

(***************************************************************************)
(* LdapUser.__init__                                                       *)
(***************************************************************************)
\* if not superuser_filter / if not data_profiler_filter: the key is absent or
\* its value is empty
FlagSkipped(key) == ~has_option(key) \/ cfg[key] = ""

\* the arguments of a group_contains_user call, evaluated in order: basedn,
\* user_name_attr, user.username
FlagArgs(user) ==
    IF ~has_option("basedn") THEN ConfigMissing("basedn")
    ELSE IF ~has_option("user_name_attr") THEN ConfigMissing("user_name_attr")
    ELSE IF user = NoUser THEN Raise("AttributeError", MSG_NONE)
    ELSE NoExc

\* the arguments of the groups_user call, evaluated in order: basedn,
\* user_filter, user_name_attr, user.username
GroupArgs(user) ==
    IF ~has_option("basedn") THEN ConfigMissing("basedn")
    ELSE IF ~has_option("user_filter") THEN ConfigMissing("user_filter")
    ELSE IF ~has_option("user_name_attr") THEN ConfigMissing("user_name_attr")
    ELSE IF user = NoUser THEN Raise("AttributeError", MSG_NONE)
    ELSE NoExc

\* the configuration key of the privilege filter a stage of the constructor reads
FilterKey(stage) ==
    IF stage = "superuser" THEN "superuser_filter" ELSE "data_profiler_filter"

\* the constructor has its flag for this stage and goes on to the next
Assigned(rec, val) ==
    IF rec.stage = "superuser"
    THEN [rec EXCEPT !.superuser = val, !.stage = "data_profiler", !.pc = "get"]
    ELSE [rec EXCEPT !.data_profiler = val, !.stage = "ldap_groups", !.pc = "get"]

\* Lines 163-164 up to the lookup in the connection store.
LdapUser_init(rec) ==
    IF ServiceArgs # NoExc THEN Raised([rec EXCEPT !.stage = "connection"], ServiceArgs)
    ELSE The({IF get_ldap_connection_hit(Shared, cfg["bind_user"], cfg["bind_password"])
              THEN [r EXCEPT !.pc = "get", !.stage = "superuser",
                             !.conn = get_ldap_connection_stored(
                                          Shared, cfg["bind_user"], cfg["bind_password"])]
              ELSE [r EXCEPT !.pc = "body", !.stage = "connection"] :
                 r \in {[rec EXCEPT !.log =
                             Append(@, <<"call", "get_ldap_connection",
                                         cfg["bind_user"], cfg["bind_password"]>>)]}})

\* Mutant of PrivilegeFlag: an unconfigured filter denies the privilege.
PrivilegeFlag_deny(rec, key) ==
    IF FlagSkipped(key) THEN Assigned(rec, FALSE)
    ELSE IF FlagArgs(rec.user) # NoExc THEN Raised(rec, FlagArgs(rec.user))
    ELSE The({IF group_contains_user_hit(Shared, cfg[key], rec.user)
              THEN Assigned(r, gcuCache[<<cfg[key], rec.user>>].val)
              ELSE [r EXCEPT !.pc = "body"] :
                 r \in {[rec EXCEPT !.log =
                             Append(@, <<"call", "group_contains_user",
                                         rec.conn.dn, rec.conn.password>>)]}})

\* try: f = conf.get("ldap", key) except AirflowConfigException: pass
\* if not f: flag = True else: flag = group_contains_user(conn, basedn, f,
\* user_name_attr, username), up to the lookup in the membership store
PrivilegeFlag(rec, key) ==
    IF FlagSkipped(key) THEN Assigned(rec, TRUE)
    ELSE IF FlagArgs(rec.user) # NoExc THEN Raised(rec, FlagArgs(rec.user))
    ELSE The({IF group_contains_user_hit(Shared, cfg[key], rec.user)
              THEN Assigned(r, gcuCache[<<cfg[key], rec.user>>].val)
              ELSE [r EXCEPT !.pc = "body"] :
                 r \in {[rec EXCEPT !.log =
                             Append(@, <<"call", "group_contains_user",
                                         rec.conn.dn, rec.conn.password>>)]}})

\* Mutant of GroupList: the groups are looked up on a connection bound with
\* the user's own credentials.
GroupList_userconn(rec) ==
    IF GroupArgs(rec.user).type = "AirflowConfigException" THEN Constructed(rec)
    ELSE IF GroupArgs(rec.user) # NoExc THEN Raised(rec, GroupArgs(rec.user))
    ELSE The({IF groups_user_hit(Shared, rec.user)
              THEN Constructed([r EXCEPT !.ldap_groups = guCache[rec.user].val])
              ELSE [r EXCEPT !.pc = "body"] :
                 r \in {[rec EXCEPT !.conn = Connection(DN(rec.user), dirPw[rec.user], TRUE),
                                    !.log =
                             Append(@, <<"call", "groups_user",
                                         DN(rec.user), dirPw[rec.user]>>)]}})

\* try: self.ldap_groups = groups_user(conn, ...) except AirflowConfigException:
\* skip, up to the lookup in the groups store
GroupList(rec) ==
    IF GroupArgs(rec.user).type = "AirflowConfigException" THEN Constructed(rec)
    ELSE IF GroupArgs(rec.user) # NoExc THEN Raised(rec, GroupArgs(rec.user))
    ELSE The({IF groups_user_hit(Shared, rec.user)
              THEN Constructed([r EXCEPT !.ldap_groups = guCache[rec.user].val])
              ELSE [r EXCEPT !.pc = "body"] :
                 r \in {[rec EXCEPT !.log =
                             Append(@, <<"call", "groups_user",
                                         rec.conn.dn, rec.conn.password>>)]}})

(***************************************************************************)
(* The users table                                                         *)
(***************************************************************************)
\* session.query(models.User).filter(models.User.username == username).first()
HasRecord(us, username) == \E i \in 1..Len(us) : us[i] = username

\* the ids load_user is called with: none, the string 'None', and numbers
UserIds == {"", "None", "1", "2"}

\* int(userid)
ToInt(userid) == IF userid = "1" THEN 1 ELSE 2

\* session.query(models.User).filter(models.User.id == int(userid)).first()
RecordById(us, userid) ==
    IF ToInt(userid) \in 1..Len(us) THEN us[ToInt(userid)] ELSE NoUser

\* load_user(userid), lines 301-306: None for no id, else the query for the
\* record with that id, whose result is None when there is no such record and
\* is handed to LdapUser at line 307
load_user(rec, userid) ==
    IF userid = "" \/ userid = "None" THEN [rec EXCEPT !.pc = "done"]
    ELSE [rec EXCEPT !.pc = "construct", !.user = RecordById(users, userid)]

\* the users table when the server starts: empty, or holding bob's record
UserTables == {<<>>, <<"bob">>}

\* session.commit() of a new record whose username the table already holds,
\* added by another request since this one's query: with a unique constraint
\* on users.username the commit raises, without one the record is added
IntegrityError == Raise("IntegrityError", "UNIQUE constraint failed: users.username")

(***************************************************************************)
(* State machine                                                           *)
(***************************************************************************)
\* user records LdapUser is constructed for
ConstructNames == {"bob"}

\* the users an LdapUser can be constructed for: those a login can succeed for
IdentityNames == DirUsers

GcuKeys == {SU_FILTER, DP_FILTER} \X IdentityNames

\* what a search for a privilege filter may find: nothing, entries without
\* bob, entries with bob (spelled in capitals by the directory), and an entry
\* without the user-name attribute beside an entry without bob, and before
\* or after the entry with bob
GroupStates == {<<>>,
                <<Attr(<<"amy">>)>>,
                <<Attr(<<"amy">>), NoAttr>>,
                <<Attr(<<"amy">>), Attr(<<"BOB">>)>>,
                <<NoAttr, Attr(<<"BOB">>)>>,
                <<Attr(<<"BOB">>), NoAttr>>}

Init ==
    /\ cfg \in Configs
    /\ now = 0
    /\ connPickles \in BOOLEAN
    /\ dirSvcOk = TRUE
    /\ dirPw = [u \in DirUsers |-> "pw1"]
    /\ dirGroups = [f \in {SU_FILTER, DP_FILTER} |->
                        IF f = SU_FILTER
                        THEN <<Attr(<<"amy">>), Attr(<<"BOB">>)>>
                        ELSE <<Attr(<<"amy">>)>>]
    /\ dirMemberOf = [u \in IdentityNames |-> Attr(<<V_ADMINS, V_DEV>>)]
    /\ connCache = [k \in ConnKeys |-> NoEntry]
    /\ gcuCache = [k \in GcuKeys |-> NoEntry]
    /\ guCache = [u \in IdentityNames |-> NoEntry]
    /\ glcReturned = [k \in ConnKeys |-> [at |-> -1]]
    /\ gcuSearched = [k \in GcuKeys |-> [at |-> -1]]
    /\ users \in UserTables
    /\ thr = [t \in Threads |-> NotRunning]
    /\ changes = 0

\* the directory, the clock and the configuration
env == <<cfg, now, connPickles, dirSvcOk, dirPw, dirGroups, dirMemberOf, changes>>

\* Thread t is free to take a request.  The threads are alike: of two free
\* threads it is t1 that takes the next request.
Free(t) == thr[t].pc = "idle" /\ (t = "t1" \/ thr["t1"].pc # "idle")

\* thread t goes on as rec
Goes(t, rec) == thr' = [thr EXCEPT ![t] = rec]

\* LdapUser.try_login(username, password) is called: lines 218-219 up to the
\* lookup in the connection store, and on a hit the lines up to the search
Begin(t, username, password) ==
    /\ Free(t)
    /\ Goes(t, try_login_begin(
                   [NotRunning EXCEPT !.op = "try_login", !.user = username,
                                      !.password = password,
                                      !.alone = try_login(Shared, username, password).exc]))
    /\ UNCHANGED <<env, connCache, gcuCache, guCache, glcReturned, gcuSearched, users>>

\* the body of get_ldap_connection for the service account, lines 73-101
BindService(t) ==
    /\ thr[t].pc = "svc_bind"
    /\ \E b \in {get_ldap_connection_body(Own(t), cfg["bind_user"], cfg["bind_password"])} :
          Goes(t, IF b.exc # NoExc
                  THEN Raised([thr[t] EXCEPT !.log = b.m.log], b.exc)
                  ELSE [thr[t] EXCEPT !.pc = "svc_set", !.conn = b.conn, !.log = b.m.log])
    /\ UNCHANGED <<env, connCache, gcuCache, guCache, glcReturned, gcuSearched, users>>

\* memoize stores the service connection; lines 221-232
StoreService(t) ==
    /\ thr[t].pc = "svc_set"
    /\ connCache' = get_ldap_connection_set(Shared, thr[t].conn).conn
    /\ glcReturned' = [glcReturned EXCEPT ![<<thr[t].conn.dn, thr[t].conn.password>>] =
                                              [at |-> now]]
    /\ Goes(t, Connected(thr[t], thr[t].conn))
    /\ UNCHANGED <<env, gcuCache, guCache, gcuSearched, users>>

\* lines 236-245
Search(t) ==
    /\ thr[t].pc = "connected"
    /\ \E s \in {try_login_search(Own(t), thr[t].conn, thr[t].user)} :
          Goes(t, IF s.exc # NoExc
                  THEN Raised([thr[t] EXCEPT !.log = s.m.log], s.exc)
                  ELSE [thr[t] EXCEPT !.pc = "searched", !.response = s.response,
                                      !.log = s.m.log])
    /\ UNCHANGED <<env, connCache, gcuCache, guCache, glcReturned, gcuSearched, users>>

\* Mutant of UnbindService: the service connections in the hands of the other
\* threads are unbound as well.
UnbindService_shared(t) ==
    /\ thr[t].pc = "searched"
    /\ \E u \in {try_login_unbind(Own(t), thr[t].conn)} :
          /\ connCache' = u.m.conn
          /\ thr' = [o \in Threads |->
                        IF o = t
                        THEN [thr[o] EXCEPT !.pc = "unbound", !.conn = u.conn,
                                            !.log = u.m.log]
                        ELSE IF thr[o].pc = "connected"
                        THEN [thr[o] EXCEPT !.crossed = TRUE,
                                            !.conn = try_login_unbind(Shared, thr[o].conn).conn]
                        ELSE thr[o]]
    /\ UNCHANGED <<env, gcuCache, guCache, glcReturned, gcuSearched, users>>

\* line 247: the thread unbinds the service connection it holds
UnbindService(t) ==
    /\ thr[t].pc = "searched"
    /\ \E u \in {try_login_unbind(Own(t), thr[t].conn)} :
          /\ connCache' = u.m.conn
          /\ thr' = [o \in Threads |->
                        IF o = t
                        THEN [thr[o] EXCEPT !.pc = "unbound", !.conn = u.conn,
                                            !.log = u.m.log]
                        ELSE IF thr[o].pc = "connected"
                        THEN [thr[o] EXCEPT !.crossed = TRUE]
                        ELSE thr[o]]
    /\ UNCHANGED <<env, gcuCache, guCache, glcReturned, gcuSearched, users>>

\* lines 249-255 up to the lookup in the connection store; on a hit try_login
\* returns
LookupUser(t) ==
    /\ thr[t].pc = "unbound"
    /\ Goes(t, IF "dn" \notin DOMAIN thr[t].response[1]
               THEN Raised(thr[t], Raise("AuthenticationError", MSG_INVALID))
               ELSE The({IF get_ldap_connection_hit(Shared, thr[t].response[1].dn,
                                                    thr[t].password)
                         THEN try_login_returned(
                                  [r EXCEPT !.conn = get_ldap_connection_stored(
                                                         Shared, thr[t].response[1].dn,
                                                         thr[t].password)])
                         ELSE [r EXCEPT !.pc = "user_bind"] :
                            r \in {[thr[t] EXCEPT !.log =
                                        Append(@, <<"call", "get_ldap_connection",
                                                    thr[t].response[1].dn,
                                                    thr[t].password>>)]}}))
    /\ UNCHANGED <<env, connCache, gcuCache, guCache, glcReturned, gcuSearched, users>>

\* the body of get_ldap_connection for the entry found, and lines 256-265
BindUser(t) ==
    /\ thr[t].pc = "user_bind"
    /\ \E b \in {UserBindExcept(get_ldap_connection_body(
                                    Own(t), thr[t].response[1].dn, thr[t].password))} :
          Goes(t, IF b.exc # NoExc
                  THEN Raised([thr[t] EXCEPT !.log = b.m.log], b.exc)
                  ELSE [thr[t] EXCEPT !.pc = "user_set", !.conn = b.conn, !.log = b.m.log])
    /\ UNCHANGED <<env, connCache, gcuCache, guCache, glcReturned, gcuSearched, users>>

\* memoize stores the user's connection; try_login returns
StoreUser(t) ==
    /\ thr[t].pc = "user_set"
    /\ connCache' = get_ldap_connection_set(Shared, thr[t].conn).conn
    /\ glcReturned' = [glcReturned EXCEPT ![<<thr[t].conn.dn, thr[t].conn.password>>] =
                                              [at |-> now]]
    /\ Goes(t, try_login_returned(thr[t]))
    /\ UNCHANGED <<env, gcuCache, guCache, gcuSearched, users>>

\* LdapUser(user) is called for the user record named username: lines 163-164
\* up to the lookup in the connection store
StartConstruct(t, username) ==
    /\ Free(t)
    /\ Goes(t, LdapUser_init([NotRunning EXCEPT !.op = "LdapUser", !.user = username]))
    /\ UNCHANGED <<env, connCache, gcuCache, guCache, glcReturned, gcuSearched, users>>

\* load_user(userid), the user loader flask_login calls for current_user on a
\* request to a view other than login
LoadUser(t, userid) ==
    /\ Free(t)
    /\ Goes(t, load_user([NotRunning EXCEPT !.op = "load_user"], userid))
    /\ UNCHANGED <<env, connCache, gcuCache, guCache, glcReturned, gcuSearched, users>>

\* LdapUser(user), called by load_user (line 307), for a request to login at
\* line 312, and by login (line 345): lines
\* 163-164 up to the lookup in the connection store
Construct(t) ==
    /\ thr[t].pc = "construct"
    /\ Goes(t, LdapUser_init(thr[t]))
    /\ UNCHANGED <<env, connCache, gcuCache, guCache, glcReturned, gcuSearched, users>>

\* the body of get_ldap_connection for the service account, lines 73-101
ConstructBind(t) ==
    /\ thr[t].stage = "connection" /\ thr[t].pc = "body"
    /\ \E b \in {get_ldap_connection_body(Own(t), cfg["bind_user"], cfg["bind_password"])} :
          Goes(t, IF b.exc # NoExc
                  THEN Raised([thr[t] EXCEPT !.log = b.m.log], b.exc)
                  ELSE [thr[t] EXCEPT !.pc = "set", !.conn = b.conn, !.log = b.m.log])
    /\ UNCHANGED <<env, connCache, gcuCache, guCache, glcReturned, gcuSearched, users>>

\* memoize stores the service connection
ConstructStore(t) ==
    /\ thr[t].stage = "connection" /\ thr[t].pc = "set"
    /\ connCache' = get_ldap_connection_set(Shared, thr[t].conn).conn
    /\ glcReturned' = [glcReturned EXCEPT ![<<thr[t].conn.dn, thr[t].conn.password>>] =
                                              [at |-> now]]
    /\ Goes(t, [thr[t] EXCEPT !.stage = "superuser", !.pc = "get"])
    /\ UNCHANGED <<env, gcuCache, guCache, gcuSearched, users>>

\* lines 166-182 and 184-201 up to the lookup in the membership store
FlagGet(t) ==
    /\ thr[t].stage \in {"superuser", "data_profiler"} /\ thr[t].pc = "get"
    /\ Goes(t, PrivilegeFlag(thr[t], FilterKey(thr[t].stage)))
    /\ UNCHANGED <<env, connCache, gcuCache, guCache, glcReturned, gcuSearched, users>>

\* the body of group_contains_user, lines 106-118; the search is on record
\* once conn.search has returned, whatever the loop over the entries does
FlagSearch(t) ==
    /\ thr[t].stage \in {"superuser", "data_profiler"} /\ thr[t].pc = "body"
    /\ \E b \in {group_contains_user_body(Own(t), thr[t].conn,
                                          cfg[FilterKey(thr[t].stage)], thr[t].user)} :
          /\ Goes(t, IF b.exc # NoExc
                     THEN Raised([thr[t] EXCEPT !.log = b.m.log], b.exc)
                     ELSE [thr[t] EXCEPT !.pc = "set", !.flag = b.val, !.log = b.m.log])
          /\ gcuSearched' =
                 IF ~CanSearch(thr[t].conn) THEN gcuSearched
                 ELSE [gcuSearched EXCEPT ![<<cfg[FilterKey(thr[t].stage)], thr[t].user>>] =
                                              [at |-> now]]
    /\ UNCHANGED <<env, connCache, gcuCache, guCache, glcReturned, users>>

\* memoize stores the value the body returned; the flag is assigned
FlagStore(t) ==
    /\ thr[t].stage \in {"superuser", "data_profiler"} /\ thr[t].pc = "set"
    /\ gcuCache' = group_contains_user_set(Shared, cfg[FilterKey(thr[t].stage)],
                                           thr[t].user, thr[t].flag).gcu
    /\ Goes(t, Assigned(thr[t], thr[t].flag))
    /\ UNCHANGED <<env, connCache, guCache, glcReturned, gcuSearched, users>>

\* lines 203-213 up to the lookup in the groups store
GroupsGet(t) ==
    /\ thr[t].stage = "ldap_groups" /\ thr[t].pc = "get"
    /\ Goes(t, GroupList(thr[t]))
    /\ UNCHANGED <<env, connCache, gcuCache, guCache, glcReturned, gcuSearched, users>>

\* the body of groups_user, lines 123-153
GroupsSearch(t) ==
    /\ thr[t].stage = "ldap_groups" /\ thr[t].pc = "body"
    /\ \E b \in {groups_user_body(Own(t), thr[t].conn, thr[t].user)} :
          Goes(t, IF b.exc # NoExc
                  THEN Raised([thr[t] EXCEPT !.log = b.m.log], b.exc)
                  ELSE [thr[t] EXCEPT !.pc = "set", !.groups = b.val, !.log = b.m.log])
    /\ UNCHANGED <<env, connCache, gcuCache, guCache, glcReturned, gcuSearched, users>>

\* memoize stores the list the body returned; ldap_groups is assigned
GroupsStore(t) ==
    /\ thr[t].stage = "ldap_groups" /\ thr[t].pc = "set"
    /\ guCache' = groups_user_set(Shared, thr[t].user, thr[t].groups).gu
    /\ Goes(t, Constructed([thr[t] EXCEPT !.ldap_groups = thr[t].groups]))
    /\ UNCHANGED <<env, connCache, gcuCache, glcReturned, gcuSearched, users>>

\* A request to login arrives, with the user id its session carries ("" for
\* none) and the two form fields, both "" (None) unless the request is a POST
\* whose form validates.  current_user.is_authenticated at line 312 has
\* flask_login load the user: with an id in the session it calls load_user,
\* whose LdapUser is constructed step by step before line 312 is decided;
\* with none, and when load_user returns None, current_user is anonymous
\* and the handler goes on to lines 316-331 and try_login up to the lookup in
\* the connection store.
Post(t, userid, username, password) ==
    /\ Free(t)
    /\ Goes(t, IF load_user([NotRunning EXCEPT !.op = "login"], userid).pc = "construct"
               THEN load_user([NotRunning EXCEPT !.op = "login"], userid)
               ELSE IF username = "" \/ password = ""
               THEN [NotRunning EXCEPT !.op = "login", !.pc = "done",
                                       !.page = "login_form"]
               ELSE try_login_begin(
                        [NotRunning EXCEPT !.op = "login", !.user = username,
                                           !.password = password, !.tried = InCall]))
    /\ UNCHANGED <<env, connCache, gcuCache, guCache, glcReturned, gcuSearched, users>>

\* lines 334-341: the query for the user's record; a new record is added to
\* the session when there is none
QueryUser(t) ==
    /\ thr[t].pc = "db_query"
    /\ Goes(t, [thr[t] EXCEPT !.pc = "db_commit", !.found = HasRecord(users, thr[t].user)])
    /\ UNCHANGED <<env, connCache, gcuCache, guCache, glcReturned, gcuSearched, users>>

\* lines 343-344: session.commit() writes the record added, and session.merge.
\* When another request has committed a record of the same username since this
\* one's query, the commit raises IntegrityError where users.username carries
\* a unique constraint and adds a second record where it does not.
CommitUser(t) ==
    /\ thr[t].pc = "db_commit"
    /\ \E unique \in IF ~thr[t].found /\ HasRecord(users, thr[t].user)
                     THEN BOOLEAN ELSE {FALSE} :
          IF thr[t].found
          THEN /\ users' = users
               /\ Goes(t, [thr[t] EXCEPT !.pc = "construct"])
          ELSE IF unique
          THEN /\ users' = users
               /\ Goes(t, Raised(thr[t], IntegrityError))
          ELSE /\ users' = Append(users, thr[t].user)
               /\ Goes(t, [thr[t] EXCEPT !.pc = "construct", !.added = TRUE])
    /\ UNCHANGED <<env, connCache, gcuCache, guCache, glcReturned, gcuSearched>>

\* lines 345-348: flask_login.login_user on the LdapUser constructed,
\* session.commit(), and the redirect
LoginUser(t) ==
    /\ thr[t].pc = "login_user"
    /\ Goes(t, [thr[t] EXCEPT !.pc = "done", !.logged_in = TRUE, !.page = "redirect"])
    /\ UNCHANGED <<env, connCache, gcuCache, guCache, glcReturned, gcuSearched, users>>

\* the request has been served: the thread is free for the next
Return(t) ==
    /\ thr[t].pc = "done"
    /\ Goes(t, NotRunning)
    /\ UNCHANGED <<env, connCache, gcuCache, guCache, glcReturned, gcuSearched, users>>

\* time passes
Tick ==
    /\ now < MaxTicks * TickStep
    /\ now' = now + TickStep
    /\ UNCHANGED <<cfg, connPickles, dirSvcOk, dirPw, dirGroups, dirMemberOf, changes,
                   connCache, gcuCache, guCache, glcReturned, gcuSearched, users, thr>>

\* the directory administrator changes something
Changed ==
    /\ changes < MaxChanges
    /\ changes' = changes + 1
    /\ UNCHANGED <<cfg, now, connPickles, connCache, gcuCache, guCache,
                   glcReturned, gcuSearched, users, thr>>

ChangePassword(u, p) ==
    /\ Changed
    /\ dirPw[u] # p
    /\ dirPw' = [dirPw EXCEPT ![u] = p]
    /\ UNCHANGED <<dirSvcOk, dirGroups, dirMemberOf>>

ChangeServiceAccount ==
    /\ Changed
    /\ dirSvcOk' = ~dirSvcOk
    /\ UNCHANGED <<dirPw, dirGroups, dirMemberOf>>

ChangeGroup(f, g) ==
    /\ Changed
    /\ dirGroups[f] # g
    /\ dirGroups' = [dirGroups EXCEPT ![f] = g]
    /\ UNCHANGED <<dirSvcOk, dirPw, dirMemberOf>>

ChangeMemberOf(u, v) ==
    /\ Changed
    /\ dirMemberOf[u] # v
    /\ dirMemberOf' = [dirMemberOf EXCEPT ![u] = v]
    /\ UNCHANGED <<dirSvcOk, dirPw, dirGroups>>

\* the steps of a try_login that has begun
TryLoginStep(t) ==
    \/ BindService(t)
    \/ StoreService(t)
    \/ Search(t)
    \/ UnbindService(t)
    \/ LookupUser(t)
    \/ BindUser(t)
    \/ StoreUser(t)

\* the steps of an LdapUser construction that has begun
ConstructStep(t) ==
    \/ ConstructBind(t)
    \/ ConstructStore(t)
    \/ FlagGet(t)
    \/ FlagSearch(t)
    \/ FlagStore(t)
    \/ GroupsGet(t)
    \/ GroupsSearch(t)
    \/ GroupsStore(t)

\* the steps of login between its try_login and its redirect, and of load_user
\* after its query
HandlerStep(t) ==
    \/ QueryUser(t)
    \/ CommitUser(t)
    \/ Construct(t)
    \/ LoginUser(t)

\* The username and password pairs submitted to try_login: every name with
\* every user password, and the service account with bind_password.
Credentials == (LoginNames \X Passwords) \cup {<<SvcName, SvcPw>>}

\* The requests to login: any session, with no form or with a form that
\* holds a username and a password.
LoginInputs ==
    {<<id, "", "">> : id \in UserIds}
    \cup {<<id, u, p>> : id \in UserIds, u \in LoginNames, p \in Passwords}

Next ==
    \/ \E t \in Threads :
          \/ \E c \in Credentials : Begin(t, c[1], c[2])
          \/ \E u \in ConstructNames : StartConstruct(t, u)
          \/ \E userid \in UserIds : LoadUser(t, userid)
          \/ \E i \in LoginInputs : Post(t, i[1], i[2], i[3])
          \/ TryLoginStep(t)
          \/ ConstructStep(t)
          \/ HandlerStep(t)
          \/ Return(t)
    \/ Tick
    \/ \E u \in DirUsers, p \in Passwords : ChangePassword(u, p)
    \/ ChangeServiceAccount
    \/ \E f \in {SU_FILTER, DP_FILTER}, g \in GroupStates : ChangeGroup(f, g)
    \/ \E u \in ConstructNames, v \in MemberOfAttrs : ChangeMemberOf(u, v)

Spec == Init /\ [][Next]_vars

\* The specifications below are parts of Spec.  Each keeps some of the
\* requests and either the clock or some of the directory changes, and
\* explores every interleaving of the steps of two threads with them.

\* the keys try_login reads, directly or through get_ldap_connection
TryLoginKeys == {"uri", "bind_user", "bind_password", "basedn", "user_filter",
                 "user_name_attr", "search_scope", "cacert", "ignore_malformed_schema"}

\* the configurations that differ in a key try_login reads
TryLoginConfigs ==
    {c \in Configs : /\ Keys \ TryLoginKeys \subseteq DOMAIN c
                     /\ c["superuser_filter"] # ""}

\* the users table empty, and a configuration try_login can tell from others
AuthInit == Init /\ cfg \in TryLoginConfigs /\ users = <<>>

\* the pairs submitted while the clock or the directory moves: bob with either
\* password, eve, who has no entry, and ref, whose search is answered by a
\* referral
AuthCredentials == {<<"bob", "pw1">>, <<"bob", "pw2">>, <<"eve", "pw1">>, <<"ref", "pw1">>}

\* try_login in two request threads while the clock advances.
AuthNext ==
    \/ \E t \in Threads :
          \/ \E c \in AuthCredentials : Begin(t, c[1], c[2])
          \/ TryLoginStep(t)
          \/ Return(t)
    \/ Tick

AuthSpec == AuthInit /\ [][AuthNext]_vars

\* try_login in two request threads while bob's password and the service
\* account change.
AccountNext ==
    \/ \E t \in Threads :
          \/ \E c \in AuthCredentials : Begin(t, c[1], c[2])
          \/ TryLoginStep(t)
          \/ Return(t)
    \/ \E p \in Passwords : ChangePassword("bob", p)
    \/ ChangeServiceAccount

AccountSpec == AuthInit /\ [][AccountNext]_vars

\* try_login in two request threads for every pair, the directory and the
\* clock standing still.
ConcurrentNext ==
    \E t \in Threads :
        \/ \E c \in Credentials : Begin(t, c[1], c[2])
        \/ TryLoginStep(t)
        \/ Return(t)

ConcurrentSpec == AuthInit /\ [][ConcurrentNext]_vars

\* every configuration key set, the users table empty
IdentityInit == Init /\ cfg = FullConfig("LEVEL") /\ users = <<>>

\* LdapUser constructions in two request threads while the clock advances.
IdentityNext ==
    \/ \E t \in Threads :
          \/ \E u \in ConstructNames : StartConstruct(t, u)
          \/ ConstructStep(t)
          \/ Return(t)
    \/ Tick

IdentitySpec == IdentityInit /\ [][IdentityNext]_vars

\* LdapUser constructions and bob's try_login in two request threads while
\* the directory's groups and bob's memberOf attribute change.
DirectoryNext ==
    \/ \E t \in Threads :
          \/ Begin(t, "bob", "pw1")
          \/ \E u \in ConstructNames : StartConstruct(t, u)
          \/ TryLoginStep(t)
          \/ ConstructStep(t)
          \/ Return(t)
    \/ \E f \in {SU_FILTER, DP_FILTER}, g \in GroupStates : ChangeGroup(f, g)
    \/ \E u \in ConstructNames, v \in MemberOfAttrs : ChangeMemberOf(u, v)

DirectorySpec == IdentityInit /\ [][DirectoryNext]_vars

\* the superuser group without bob, without bob and with an entry that lacks
\* the user-name attribute, and with bob
SuperuserGroups == {<<Attr(<<"amy">>)>>,
                    <<Attr(<<"amy">>), NoAttr>>,
                    <<Attr(<<"amy">>), Attr(<<"BOB">>)>>}

\* any configuration, the users table empty
ConfigInit == Init /\ users = <<>>

\* LdapUser constructions and bob's try_login in two request threads under
\* every configuration, the directory administrator taking bob out of the
\* superuser group and putting him back.
ConfigNext ==
    \/ \E t \in Threads :
          \/ Begin(t, "bob", "pw1")
          \/ \E u \in ConstructNames : StartConstruct(t, u)
          \/ TryLoginStep(t)
          \/ ConstructStep(t)
          \/ Return(t)
    \/ \E g \in SuperuserGroups : ChangeGroup(SU_FILTER, g)

ConfigSpec == ConfigInit /\ [][ConfigNext]_vars

\* the requests to login: without a session and without a form, without a
\* session and with the form of bob with either password, of eve, who has no
\* entry, and of kay, whose bind raises KeyError; and with the session of
\* user 1 or of user 2, with bob's form
LoginForms == {<<"", "", "">>, <<"", "bob", "pw1">>, <<"", "bob", "pw2">>,
               <<"", "eve", "pw1">>, <<"", "kay", "pw1">>,
               <<"1", "bob", "pw1">>, <<"2", "bob", "pw1">>}

\* every configuration key set
LoginInit == Init /\ cfg = FullConfig("LEVEL")

\* The login handler and the user loader in two request threads while the
\* service account changes.
LoginNext ==
    \/ \E t \in Threads :
          \/ \E i \in LoginForms : Post(t, i[1], i[2], i[3])
          \/ \E userid \in UserIds : LoadUser(t, userid)
          \/ TryLoginStep(t)
          \/ ConstructStep(t)
          \/ HandlerStep(t)
          \/ Return(t)
    \/ ChangeServiceAccount

LoginSpec == LoginInit /\ [][LoginNext]_vars

(***************************************************************************)
(* Vocabulary of the properties                                            *)
(***************************************************************************)
\* every key of the [ldap] section is set
ConfigComplete == DOMAIN cfg = Keys

\* the keys the specification calls optional
SpecOptionalKeys == {"cacert", "ignore_malformed_schema", "search_scope",
                     "group_member_attr", "superuser_filter", "data_profiler_filter"}

\* the keys the specification calls required
SpecRequiredKeys == Keys \ SpecOptionalKeys

\* the user search of try_login finds the entry of username
Found(username) ==
    username \in DirUsers /\ Len(SearchUser(username, LoginScope)) > 0

\* the directory lists username among the entries group_filter selects
IsMember(group_filter, username) ==
    LET entries == SearchGroup(group_filter) IN
    \E i \in 1..Len(entries) :
        /\ entries[i].present
        /\ \E j \in 1..Len(entries[i].values) :
              Lower(entries[i].values[j]) = Lower(username)

\* The CN of a distinguished name, read component by component: the value of
\* the first component whose attribute type is cn, <<>> when there is none.
RECURSIVE CnFrom(_, _)
CnFrom(s, i) ==
    IF i > Len(s) THEN <<>>
    ELSE LET comp == UpToComma(s, i) IN
         IF Len(comp) >= 3 /\ Lower(comp[1]) = "c" /\ Lower(comp[2]) = "n" /\ comp[3] = "="
         THEN <<SubSeq(comp, 4, Len(comp))>>
         ELSE CnFrom(s, i + Len(comp) + 1)

\* the CNs of the values that have one, in order
RECURSIVE CNs(_)
CNs(values) ==
    IF values = <<>> THEN <<>>
    ELSE CnFrom(Head(values), 1) \o CNs(Tail(values))

\* thread t takes the step
Steps(t) == thr'[t] # thr[t]

\* e is among the directory calls logged
Has(log, e) == \E i \in 1..Len(log) : log[i] = e

\* the positions in the calls logged where function f was called
CallsOf(log, f) == {i \in 1..Len(log) : log[i][1] = "call" /\ log[i][2] = f}

\* the positions in the calls logged where a bind request was sent
Binds(log) == {i \in 1..Len(log) : log[i][1] = "bind"}

\* the positions in the calls logged where a group was searched
GroupSearches(log) == {i \in 1..Len(log) : log[i][1] = "search_group"}

\* in this step thread t calls get_ldap_connection for key k: memoize looks
\* the key up
Calls(t, k) ==
    /\ Len(thr'[t].log) = Len(thr[t].log) + 1
    /\ thr'[t].log[Len(thr'[t].log)] = <<"call", "get_ldap_connection", k[1], k[2]>>

\* the thread is about to run the body of get_ldap_connection
Binding(rec) ==
    \/ rec.pc \in {"svc_bind", "user_bind"}
    \/ rec.stage = "connection" /\ rec.pc = "body"

\* the thread is about to store the connection the body returned
Storing(rec) ==
    \/ rec.pc \in {"svc_set", "user_set"}
    \/ rec.stage = "connection" /\ rec.pc = "set"

\* the pair the thread's get_ldap_connection call is for
BindKey(rec) ==
    IF rec.pc = "user_bind"
    THEN <<rec.response[1].dn, rec.password>>
    ELSE <<cfg["bind_user"], cfg["bind_password"]>>

\* the directory does not accept a bind request for the pair
Refused(k) == ~DirAccepts(k[1], k[2]) \/ BindRaisesKeyError(k[1])

\* the configuration holds the keys get_ldap_connection reads
ConnectionConfigured ==
    {"ignore_malformed_schema", "cacert", "search_scope", "uri"} \subseteq DOMAIN cfg

\* a get_ldap_connection call for k that bound returned less than TTL seconds ago
RecentlyReturned(k) == glcReturned[k].at >= 0 /\ now - glcReturned[k].at < TTL

\* the directory was searched for key k less than TTL seconds ago
RecentlySearched(k) == gcuSearched[k].at >= 0 /\ now - gcuSearched[k].at < TTL

\* superuser_filter is set to a non-empty filter
SuperuserConfigured == has_option("superuser_filter") /\ cfg["superuser_filter"] # ""

\* the constructor thread t runs has assigned self.superuser
SuperuserAssigned(t) == thr[t].stage \in {"data_profiler", "ldap_groups", "constructed"}

\* the constructor thread t runs has assigned self.data_profiler
ProfilerAssigned(t) == thr[t].stage \in {"ldap_groups", "constructed"}

\* thread t is at the privilege flag of key k, its arguments evaluated, in
\* position pc
AtFlag(t, k, pc) ==
    /\ thr[t].stage \in {"superuser", "data_profiler"}
    /\ thr[t].pc = pc
    /\ ~FlagSkipped(FilterKey(thr[t].stage))
    /\ FlagArgs(thr[t].user) = NoExc
    /\ k = <<cfg[FilterKey(thr[t].stage)], thr[t].user>>

\* the privilege flag thread t has after leaving the stage it was in
FlagOf(t) ==
    IF thr[t].stage = "superuser" THEN thr'[t].superuser ELSE thr'[t].data_profiler

\* the keys the group-list step of the constructor reads
GroupLookupKeys == {"basedn", "user_filter", "user_name_attr"}

\* the request to login thread t served was refused: try_login or the
\* construction of the LdapUser raised LdapException or AuthenticationError,
\* which the handler caught
LoginRefused(t) ==
    /\ thr[t].op = "login"
    /\ thr[t].pc = "done"
    /\ thr[t].tried # NotCalled
    /\ thr[t].exc = NoExc
    /\ ~thr[t].logged_in

\* the positions in the calls of a try_login where it asks get_ldap_connection
\* for the user's connection: every such call but the first, which asks for
\* the service connection
UserStep(log) ==
    {i \in 2..Len(log) : log[i][1] = "call" /\ log[i][2] = "get_ldap_connection"}

(***************************************************************************)
(* Properties                                                              *)
(***************************************************************************)

\* C1: a try_login for a username that has no directory entry ends in
\* AuthenticationError (InvalidCredentials), whatever calls came before and
\* whatever other request runs beside it.
C1_NoEntryIsInvalidCredentials ==
    \A t \in Threads :
        (/\ thr[t].op = "try_login"
         /\ thr[t].pc = "done"
         /\ ConfigComplete
         /\ thr[t].user \notin EntryNames)
            => thr[t].exc.type = "AuthenticationError"

\* C1 witness: a try_login for eve, who has no entry, that was given the
\* service connection an earlier call had stored (it sent no bind request),
\* searched for her and ended in AuthenticationError.
C1_Witness ==
    \E t \in Threads :
        /\ thr[t].op = "try_login"
        /\ thr[t].pc = "done"
        /\ ConfigComplete
        /\ thr[t].user = "eve"
        /\ Binds(thr[t].log) = {}
        /\ Has(thr[t].log, <<"search_user", "eve">>)
        /\ thr[t].exc = Raise("AuthenticationError", MSG_INVALID)

\* C2: a try_login for a user the search finds, with a password the directory
\* rejects for that user at the time the call asks for the user's connection
\* and binds, does not return: it ends in AuthenticationError
\* (InvalidCredentials).
C2_WrongPasswordIsInvalidCredentials ==
    [][\A t \in Threads :
          (/\ thr[t].op = "try_login"
           /\ thr[t].pc \in {"unbound", "user_bind"}
           /\ Steps(t)
           /\ ConfigComplete
           /\ Found(thr[t].user)
           /\ dirPw[thr[t].user] # thr[t].password)
              => (thr'[t].pc = "done" => thr'[t].exc.type = "AuthenticationError")]_vars

\* C3: with the service account accepted, a try_login with the username and
\* password of a directory entry returns, and an LdapUser constructed for
\* that user gets for ldap_groups the CNs of the values of the entry's
\* memberOf attribute as the directory holds it when the constructor asks.
C3_ValidLoginThenGroups ==
    [][\A t \in Threads :
          /\ (/\ thr'[t].op = "try_login"
              /\ thr'[t].pc = "done"
              /\ Steps(t)
              /\ ConfigComplete
              /\ dirSvcOk
              /\ Found(thr'[t].user)
              /\ dirPw[thr'[t].user] = thr'[t].password)
                 => thr'[t].exc = NoExc
          /\ (/\ thr[t].stage = "ldap_groups"
              /\ Steps(t)
              /\ ConfigComplete)
                 => /\ thr'[t].exc = NoExc
                    /\ thr'[t].pc = "set"
                         => thr'[t].groups = CNs(dirMemberOf[thr[t].user].values)
                    /\ thr'[t].stage = "constructed"
                         => thr'[t].ldap_groups = CNs(dirMemberOf[thr[t].user].values)]_vars

\* C4: when groups_user reads a memberOf list holding a value without a cn=
\* component, it returns the CNs of the other values and does not abort.
C4_MalformedValueSkipped ==
    [][\A t \in Threads :
          (/\ thr[t].stage = "ldap_groups"
           /\ thr[t].pc = "body"
           /\ Steps(t)
           /\ MemberofAttr = "memberOf"
           /\ dirMemberOf[thr[t].user].present)
              => /\ thr'[t].exc = NoExc
                 /\ thr'[t].pc = "set"
                 /\ thr'[t].groups = CNs(dirMemberOf[thr[t].user].values)]_vars

\* C5: with superuser_filter absent every LdapUser under construction or
\* constructed is a superuser, and with data_profiler_filter absent every one
\* has data profiling, whatever the directory says about the user's groups.
C5_UnconfiguredFilterGrants ==
    \A t \in Threads :
        /\ (SuperuserAssigned(t) /\ ~has_option("superuser_filter"))
              => thr[t].superuser = TRUE
        /\ (ProfilerAssigned(t) /\ ~has_option("data_profiler_filter"))
              => thr[t].data_profiler = TRUE

\* C5 witness: an LdapUser constructed without superuser_filter for a user the
\* directory does not list under the superuser group.
C5_Witness ==
    \E t \in Threads :
        /\ thr[t].op = "LdapUser"
        /\ thr[t].stage = "constructed"
        /\ ~has_option("superuser_filter")
        /\ ~IsMember(SU_FILTER, thr[t].user)
        /\ thr[t].superuser = TRUE

\* C6 as stated: with superuser_filter set, a constructor that assigns
\* self.superuser while the directory does not list the user under that
\* filter assigns false, whatever the membership store holds.
C6_NonMemberNotSuperuser ==
    [][\A t \in Threads :
          (/\ thr[t].stage = "superuser"
           /\ thr'[t].stage = "data_profiler"
           /\ SuperuserConfigured
           /\ ~IsMember(cfg["superuser_filter"], thr[t].user))
              => thr'[t].superuser = FALSE]_vars

\* C6 amended: with superuser_filter set, a group_contains_user call that
\* searches the directory (no result for the same parameters younger than the
\* TTL was stored when it looked) while the directory does not list the user
\* under that filter never returns true: it returns false when every entry
\* found carries the user-name attribute, and raises AttributeError, leaving
\* self.superuser unassigned and the construction aborted, when an entry found
\* lacks it; and the constructor assigns to self.superuser what the search
\* returned.
C6_NonMemberNotSuperuserOnSearch ==
    [][\A t \in Threads :
          /\ (/\ thr[t].stage = "superuser"
              /\ thr[t].pc = "body"
              /\ Steps(t)
              /\ ~IsMember(cfg["superuser_filter"], thr[t].user))
                 => IF \A i \in 1..Len(SearchGroup(cfg["superuser_filter"])) :
                          SearchGroup(cfg["superuser_filter"])[i].present
                    THEN /\ thr'[t].pc = "set"
                         /\ thr'[t].flag = FALSE
                    ELSE /\ thr'[t].pc = "done"
                         /\ thr'[t].stage = "superuser"
                         /\ thr'[t].exc.type = "AttributeError"
          /\ (/\ thr[t].stage = "superuser"
              /\ thr[t].pc = "set"
              /\ Steps(t))
                 => /\ thr'[t].stage = "data_profiler"
                    /\ thr'[t].superuser = thr[t].flag]_vars

\* C6 witness: after the user was taken out of the group, a construction has
\* searched the directory and has is_superuser() false.
C6_Witness ==
    \E t \in Threads :
        /\ SuperuserAssigned(t)
        /\ SuperuserConfigured
        /\ changes > 0
        /\ Has(thr[t].log, <<"search_group", cfg["superuser_filter"], thr[t].user>>)
        /\ ~IsMember(cfg["superuser_filter"], thr[t].user)
        /\ thr[t].superuser = FALSE

\* C7: every connection get_ldap_connection would return from its store is
\* bound: none was stored unbound and none stored has been unbound since.
C7_CachedConnectionsBound ==
    \A k \in ConnKeys : Fresh(connCache[k]) => connCache[k].bound

\* C7 witness: a try_login has unbound the service connection it had
\* obtained, and the store still returns a bound service connection.
C7_Witness ==
    \E t \in Threads :
        /\ Has(thr[t].log, <<"unbind", SvcDN>>)
        /\ ~thr[t].conn.bound
        /\ Fresh(connCache[<<SvcDN, SvcPw>>])
        /\ connCache[<<SvcDN, SvcPw>>].bound

\* C8 as stated: no group_contains_user call searches the directory less than
\* TTL seconds after a search for the same parameters returned.
C8_AtMostOneSearchWithinTTL ==
    [][\A t \in Threads, k \in GcuKeys :
          (AtFlag(t, k, "body") /\ thr'[t].pc = "set") => ~RecentlySearched(k)]_vars

\* C8 amended: a group_contains_user call that begins when a result for the
\* same parameters was stored less than TTL seconds before searches the
\* directory no further and returns the stored result.
C8_CallAfterStoreFromCache ==
    [][\A t \in Threads, k \in GcuKeys :
          (AtFlag(t, k, "get") /\ Steps(t) /\ Fresh(gcuCache[k]))
             => /\ thr'[t].pc = "get"
                /\ thr'[t].stage # thr[t].stage
                /\ GroupSearches(thr'[t].log) = GroupSearches(thr[t].log)
                /\ FlagOf(t) = gcuCache[k].val]_vars

\* C8 witness: a construction that began later than, and within the TTL of,
\* the storing of the superuser result, and has its superuser flag, the stored
\* one, without a search.
C8_Witness ==
    \E t \in Threads :
        /\ thr[t].stage = "data_profiler"
        /\ thr[t].pc = "get"
        /\ GroupSearches(thr[t].log) = {}
        /\ SuperuserConfigured
        /\ Fresh(gcuCache[<<SU_FILTER, thr[t].user>>])
        /\ gcuCache[<<SU_FILTER, thr[t].user>>].stamp < now
        /\ thr[t].superuser = gcuCache[<<SU_FILTER, thr[t].user>>].val

\* C9: with every key the specification calls required set, the absence of a
\* key it calls optional makes no try_login and no LdapUser construction fail
\* on the configuration.
C9_MissingOptionalKeyTolerated ==
    \A t \in Threads :
        (/\ thr[t].op \in {"try_login", "LdapUser"}
         /\ thr[t].pc = "done"
         /\ SpecRequiredKeys \subseteq DOMAIN cfg)
            => thr[t].exc.type \notin {"UnboundLocalError", "AirflowConfigException"}

\* C10: a service-account bind of try_login that the directory refuses is not
\* reported as AuthenticationError, the outcome of a refused user bind or an
\* unknown user.
C10_ServiceBindFailureDistinct ==
    [][\A t \in Threads :
          (/\ thr[t].op = "try_login"
           /\ thr[t].pc = "svc_bind"
           /\ Steps(t)
           /\ ~dirSvcOk
           /\ Has(thr'[t].log, <<"bind", SvcDN, SvcPw>>))
              => thr'[t].exc.type # "AuthenticationError"]_vars

\* C11: with a key of the group lookup absent from the configuration, every
\* LdapUser construction completes, and leaves ldap_groups the empty list.
C11_ConstructionCompletesWithoutGroupConfig ==
    \A t \in Threads :
        (/\ thr[t].op = "LdapUser"
         /\ thr[t].pc = "done"
         /\ \E k \in GroupLookupKeys : ~has_option(k))
            => /\ thr[t].exc = NoExc
               /\ thr[t].ldap_groups = <<>>

\* C12: the message flashed to the user after a login refused with
\* AuthenticationError (InvalidCredentials) or LdapException
\* (MalformedDirectoryResponse) is the generic incorrect-login message.
C12_RefusedLoginMessageGeneric ==
    \A t \in Threads : LoginRefused(t) => thr[t].flash = FLASH_INCORRECT

\* C13: a group_contains_user call that searches the directory returns, and
\* returns true exactly when some entry found has a value of the inspected
\* attribute equal to the username ignoring case; no entries, or entries
\* lacking the attribute, make it return false, not raise.
C13_MembershipIffSomeEntryNamesUser ==
    [][\A t \in Threads, k \in GcuKeys :
          (AtFlag(t, k, "body") /\ Steps(t))
             => /\ thr'[t].pc = "set"
                /\ thr'[t].flag <=> IsMember(k[1], k[2])]_vars

\* C14: a try_login asks for the connection of the user (the entry's DN with
\* the password supplied) only after it obtained the service connection, the
\* user search found an entry that has a dn, and the service connection was
\* unbound; and the connection it is then given is not the service connection
\* from the store: a call with the service account's own pair binds anew.
C14_UserBindAfterSearchAndUnbind ==
    \A t \in Threads :
        (thr[t].op = "try_login" /\ thr[t].pc = "done") =>
            \A i \in UserStep(thr[t].log) :
                LET svc == <<cfg["bind_user"], cfg["bind_password"]>>
                    response == SearchUser(thr[t].user, LoginScope)
                    log == thr[t].log
                IN
                /\ log[1] = <<"call", "get_ldap_connection", svc[1], svc[2]>>
                /\ Len(response) > 0
                /\ "dn" \in DOMAIN response[1]
                /\ log[i] = <<"call", "get_ldap_connection", response[1].dn, thr[t].password>>
                /\ \E j \in 1..(i - 1), k \in 1..(i - 1) :
                      /\ j < k
                      /\ log[j] = <<"search_user", thr[t].user>>
                      /\ log[k] = <<"unbind", svc[1]>>
                /\ <<log[i][3], log[i][4]>> = svc
                      => \E j \in (i + 1)..Len(log) : log[j] = <<"bind", svc[1], svc[2]>>

\* C15: every try_login either returns, or raises one of the tagged errors:
\* AuthenticationError, LdapException, or the configuration error for a key
\* the specification calls required that is absent; it raises nothing else.
C15_TryLoginEndsTagged ==
    \A t \in Threads :
        (thr[t].op = "try_login" /\ thr[t].pc = "done") =>
            \/ thr[t].exc = NoExc
            \/ thr[t].exc.type \in {"AuthenticationError", "LdapException"}
            \/ thr[t].exc.type = "AirflowConfigException" /\ thr[t].exc.msg \in SpecRequiredKeys

\* C16: every try_login that runs while others run ends as it would have ended
\* running alone, and the service connection a thread holds and has yet to
\* search on is bound whatever the other threads have unbound.
C16_ConcurrentOutcomeAsAlone ==
    \A t \in Threads :
        /\ (thr[t].op = "try_login" /\ thr[t].pc = "done") => thr[t].exc = thr[t].alone
        /\ (thr[t].op = "try_login" /\ thr[t].pc = "connected") => thr[t].conn.bound

\* C16 witness: a try_login that returned although another thread unbound its
\* service connection while this one held its own and had yet to search on it.
C16_Witness ==
    \E t \in Threads :
        /\ thr[t].op = "try_login"
        /\ thr[t].pc = "done"
        /\ thr[t].crossed
        /\ thr[t].exc = NoExc
        /\ thr[t].alone = NoExc

\* C17: a get_ldap_connection call for a (dn, password) made less than TTL
\* seconds after a call for that pair bound and returned sends no bind
\* request and leaves the store as it is; a call made when the last such
\* return is older sends a bind request and, when the directory accepts it,
\* stores the new connection in place of the old.
C17_BindOnlyOnMiss ==
    [][\A t \in Threads, k \in ConnKeys :
          /\ (Calls(t, k) /\ RecentlyReturned(k)) => ~Binding(thr'[t])
          /\ (Calls(t, k) /\ glcReturned[k].at >= 0 /\ ~RecentlyReturned(k))
                => Binding(thr'[t])
          /\ (Storing(thr[t]) /\ Steps(t) /\ k = <<thr[t].conn.dn, thr[t].conn.password>>)
                => connCache'[k] = [stamp |-> now, bound |-> TRUE]]_vars

\* C18: a bind request the directory does not accept ends the call with
\* nothing stored: the connection store is as it was and memoize has nothing
\* to store; what is stored is a bound connection; and every call that finds
\* no entry younger than the TTL for its pair runs the body, which sends a
\* bind request.
C18_FailedBindNotCached ==
    [][\A t \in Threads :
          /\ (Binding(thr[t]) /\ Steps(t) /\ Refused(BindKey(thr[t])))
                => /\ connCache' = connCache
                   /\ ~Storing(thr'[t])
                   /\ thr'[t].pc = "done"
          /\ (Storing(thr[t]) /\ Steps(t)) => thr[t].conn.bound
          /\ \A k \in ConnKeys :
                (Calls(t, k) /\ ~Fresh(connCache[k])) => Binding(thr'[t])
          /\ (Binding(thr[t]) /\ Steps(t) /\ ConnectionConfigured)
                => Has(thr'[t].log, <<"bind", BindKey(thr[t])[1], BindKey(thr[t])[2]>>)]_vars

\* C18 witness: a try_login refused at the user bind after the user's
\* password was changed: the bind request was sent and nothing is stored for
\* the pair.
C18_Witness ==
    \E t \in Threads :
        /\ thr[t].op = "try_login"
        /\ thr[t].pc = "done"
        /\ thr[t].exc = Raise("AuthenticationError", MSG_BIND)
        /\ thr[t].user \in DirUsers
        /\ changes > 0
        /\ dirPw[thr[t].user] # thr[t].password
        /\ Has(thr[t].log, <<"bind", DN(thr[t].user), thr[t].password>>)
        /\ connCache[<<DN(thr[t].user), thr[t].password>>] = NoEntry

\* C19: a user record is added only by the commit of a request to login whose
\* try_login returned without raising for the username and password
\* submitted, and a session is established (flask_login.login_user) only by
\* such a request; nothing else changes the users table; and a request to
\* login that is refused, for whatever reason the handler catches, has added
\* no record and established no session.
C19_RecordAndSessionOnlyAfterTryLogin ==
    [][/\ users' # users
            => \E t \in Threads :
                  /\ thr[t].op = "login"
                  /\ thr[t].pc = "db_commit"
                  /\ thr[t].tried = NoExc
                  /\ thr'[t].added
                  /\ users' = Append(users, thr[t].user)
       /\ \A t \in Threads :
             /\ (thr'[t].added \/ thr'[t].logged_in) => thr'[t].tried = NoExc
             /\ (thr'[t].added /\ ~thr[t].added) => users' # users
             /\ LoginRefused(t)' => (~thr'[t].added /\ ~thr'[t].logged_in)]_vars

\* C20: an LdapUser construction calls get_ldap_connection once, with
\* bind_user and bind_password; every group_contains_user and groups_user call
\* it makes is given that connection; it sends no bind request with other
\* credentials; and a construction that completes with both privilege filters
\* and the group lookup configured has made all three lookups.
C20_OneServiceBindingForAllLookups ==
    \A t \in Threads :
        (/\ thr[t].op = "LdapUser"
         /\ has_option("bind_user")
         /\ has_option("bind_password"))
            => LET svc == <<cfg["bind_user"], cfg["bind_password"]>>
                   log == thr[t].log
                   lookups == CallsOf(log, "group_contains_user")
                              \cup CallsOf(log, "groups_user")
               IN
               /\ Cardinality(CallsOf(log, "get_ldap_connection")) = 1
               /\ \A i \in CallsOf(log, "get_ldap_connection") \cup lookups :
                     <<log[i][3], log[i][4]>> = svc
               /\ \A i \in Binds(log) : <<log[i][2], log[i][3]>> = svc
               /\ thr[t].conn # NoConn
                     => <<thr[t].conn.dn, thr[t].conn.password>> = svc
               /\ (/\ thr[t].stage = "constructed"
                   /\ SuperuserConfigured
                   /\ has_option("data_profiler_filter")
                   /\ GroupLookupKeys \subseteq DOMAIN cfg)
                     => Cardinality(lookups) = 3

\* C20 witness: a construction that bound the service account and completed
\* all three lookups, searching the directory for the user's groups.
C20_Witness ==
    \E t \in Threads :
        /\ thr[t].op = "LdapUser"
        /\ thr[t].stage = "constructed"
        /\ Has(thr[t].log, <<"bind", SvcDN, SvcPw>>)
        /\ Cardinality(CallsOf(thr[t].log, "group_contains_user")) = 2
        /\ Cardinality(CallsOf(thr[t].log, "groups_user")) = 1
        /\ Has(thr[t].log, <<"search_memberof", MemberofAttr, thr[t].user>>)

====
